---- MODULE Spec2Model ----
(***************************************************************************)
(* A model of junit2html_simple.py: the command-line run                   *)
(*   main -> parse_files -> render_html -> write -> print                  *)
(* and of the pure functions it is built from (_get_test_status,           *)
(* seconds_fmt, _escape_html, _build_row_html, _build_main_content,        *)
(* _build_sidebar).                                                        *)
(*                                                                         *)
(* Conventions.  An optional XML attribute is a sequence: <<>> when the    *)
(* attribute is absent, <<v>> when it is present with value v.  Names are  *)
(* strings; the empty string is Python's "" (or None, which the code       *)
(* treats alike through `x or default`).  Times are integers.              *)
(***************************************************************************)
EXTENDS Integers, Sequences, FiniteSets, TLC

\* ------------------------------------------------------------------ bounds
\* Number of input paths on the command line.
MaxFiles == 2
\* Number of <testcase> elements in the whole input (Spec) or in the suite
\* (SpecSuite).
MaxCases == 2
\* Largest value of a suite's count attribute.
MaxCount == 1
\* Number of result entries of a <testcase> (SpecCase).
MaxResults == 2
\* Largest elapsed time, in milliseconds (SpecFmt).
MaxMs == 125500
\* Length of a user-supplied text (SpecEscape).
MaxLen == 2
\* Number of rows of the report that is opened in a browser (SpecUI, SpecNav).
MaxRows == 2

VARIABLES
    paths,        \* argv inputs: the files as they are on disk
    pc,           \* position of main()
    idx,          \* number of paths the loop of parse_files has consumed
    suites_data,  \* parse_files: suites_data
    case_rows,    \* parse_files: case_rows
    totals,       \* parse_files: totals, <<>> until computed
    html_str,     \* main: html_str, <<>> until render_html returned
    out_file,     \* content of args.output, <<>> while it was never opened
    stdout,       \* lines printed so far
    arg,          \* the argument of a function checked on its own
    ret,          \* what that function returned, <<>> before the call
    dom           \* the report open in a browser, <<>> while it is not

vars == <<paths, pc, idx, suites_data, case_rows, totals, html_str, out_file, stdout,
          arg, ret, dom>>

\* the variables of the run of main()
runvars == <<paths, idx, suites_data, case_rows, totals, html_str, out_file, stdout>>

\* ------------------------------------------------------- Python primitives
\* `x or d` for an optional numeric attribute: absent and 0 are falsy.
OrElse(attr, d) == IF attr # <<>> /\ attr[1] # 0 THEN attr[1] ELSE d

\* `s or d` for a string.
StrOr(s, d) == IF s # "" THEN s ELSE d

\* Every name the model uses, in Python's (code point) string order.
StrOrder == <<"", "A", "B", "Default", "S1", "S2", "a", "b",
              "f1.xml", "f2.xml", "f3.xml", "f4.xml">>

Rank(s) == CHOOSE i \in 1..Len(StrOrder) : StrOrder[i] = s

RECURSIVE SortedKeys(_)
\* sorted(d.keys()) for a set of strings.
SortedKeys(S) ==
    IF S = {} THEN <<>>
    ELSE LET m == CHOOSE x \in S : \A y \in S : Rank(x) <= Rank(y)
         IN  <<m>> \o SortedKeys(S \ {m})

RECURSIVE InsertByName(_, _)
\* insert c behind every element whose name is not greater (stable).
InsertByName(sorted, c) ==
    IF sorted = <<>> THEN <<c>>
    ELSE IF Rank(c.name) < Rank(Head(sorted).name)
         THEN <<c>> \o sorted
         ELSE <<Head(sorted)>> \o InsertByName(Tail(sorted), c)

RECURSIVE SortedByName(_)
\* sorted(cases, key=lambda x: x["name"]): a stable sort.
SortedByName(cases) ==
    IF cases = <<>> THEN <<>>
    ELSE InsertByName(SortedByName(SubSeq(cases, 1, Len(cases) - 1)),
                      cases[Len(cases)])

RECURSIVE SumOf(_, _)
\* sum(s[field] for s in seq)
SumOf(seq, field) ==
    IF seq = <<>> THEN 0 ELSE Head(seq)[field] + SumOf(Tail(seq), field)

RECURSIVE Flatten(_)
Flatten(seqs) == IF seqs = <<>> THEN <<>> ELSE Head(seqs) \o Flatten(Tail(seqs))

\* len([c for c in cases if c["status"] == st])
CountStatus(cases, st) == Len(SelectSeq(cases, LAMBDA c : c.status = st))

\* ------------------------------------------------------------ case parsing
\* A result entry of a case is [kind, message, text], kind one of
\* "Failure", "Error", "Skipped"; case.result lists them in document order.

\* _get_test_status, wrong: precedence over all entries instead of the first.
GetTestStatus_AnyFailure(result) ==
    IF \E i \in 1..Len(result) : result[i].kind = "Failure" THEN "fail"
    ELSE IF \E i \in 1..Len(result) : result[i].kind = "Error" THEN "err"
    ELSE IF \E i \in 1..Len(result) : result[i].kind = "Skipped" THEN "skip"
    ELSE "ok"

RECURSIVE StatusFrom(_, _)
\* the loop of _get_test_status from entry i on: the first entry that is a
\* Failure, an Error or a Skipped returns.
StatusFrom(result, i) ==
    IF i > Len(result) THEN "ok"
    ELSE IF result[i].kind = "Failure" THEN "fail"
    ELSE IF result[i].kind = "Error" THEN "err"
    ELSE IF result[i].kind = "Skipped" THEN "skip"
    ELSE StatusFrom(result, i + 1)

GetTestStatus(result) == StatusFrom(result, 1)

\* _get_test_message: the message of the first entry.
GetTestMessage(result) == IF result # <<>> THEN result[1].message ELSE ""

\* _get_test_detail: the text of the first entry.
GetTestDetail(result) == IF result # <<>> THEN result[1].text ELSE ""

\* parse_files, the record appended to case_rows for one <testcase>.
CaseRow(case, sname) ==
    [suite     |-> sname,
     classname |-> case.classname,
     name      |-> case.name,
     time      |-> OrElse(case.time, 0),
     status    |-> GetTestStatus(case.result),
     message   |-> GetTestMessage(case.result),
     detail    |-> GetTestDetail(case.result)]

\* ----------------------------------------------------------- suite parsing
\* sname = suite.name or os.path.basename(p)
SuiteName(suite, base) == StrOr(suite.name, base)

\* parse_files, wrong: a missing tests attribute counts as 0.
SuiteSummary_TestsZero(suite, base) ==
    [name     |-> SuiteName(suite, base),
     tests    |-> OrElse(suite.tests, 0),
     failures |-> OrElse(suite.failures, 0),
     errors   |-> OrElse(suite.errors, 0),
     skipped  |-> OrElse(suite.skipped, OrElse(suite.disabled, 0)),
     time     |-> OrElse(suite.time, 0),
     file     |-> base]

\* parse_files, the record appended to suites_data for one suite.
SuiteSummary(suite, base) ==
    [name     |-> SuiteName(suite, base),
     tests    |-> OrElse(suite.tests, Len(suite.cases)),
     failures |-> OrElse(suite.failures, 0),
     errors   |-> OrElse(suite.errors, 0),
     skipped  |-> OrElse(suite.skipped, OrElse(suite.disabled, 0)),
     time     |-> OrElse(suite.time, 0),
     file     |-> base]

\* the rows one suite appends to case_rows.
SuiteCaseRows(suite, base) ==
    [i \in 1..Len(suite.cases) |-> CaseRow(suite.cases[i], SuiteName(suite, base))]

\* the body of `for suite in xml` over a whole file.
FileSummaries(file) ==
    [i \in 1..Len(file.suites) |-> SuiteSummary(file.suites[i], file.base)]

FileCaseRows(file) ==
    Flatten([i \in 1..Len(file.suites) |-> SuiteCaseRows(file.suites[i], file.base)])

\* parse_files, the totals dict.
Totals(sd, rows) ==
    [suites   |-> Len(sd),
     tests    |-> SumOf(sd, "tests"),
     failures |-> SumOf(sd, "failures"),
     errors   |-> SumOf(sd, "errors"),
     skipped  |-> SumOf(sd, "skipped"),
     time     |-> SumOf(sd, "time"),
     passed   |-> SumOf(sd, "tests") - SumOf(sd, "failures")
                    - SumOf(sd, "errors") - SumOf(sd, "skipped")]

\* parse_files as a function of the list of files, for lists whose files
\* all parse: [suites, cases, totals].
ParseFiles(files) ==
    LET RECURSIVE Suites(_)
        Suites(fs) == IF fs = <<>> THEN <<>>
                      ELSE FileSummaries(Head(fs)) \o Suites(Tail(fs))
        RECURSIVE Rows(_)
        Rows(fs) == IF fs = <<>> THEN <<>>
                    ELSE FileCaseRows(Head(fs)) \o Rows(Tail(fs))
    IN  [suites |-> Suites(files),
         cases  |-> Rows(files),
         totals |-> Totals(Suites(files), Rows(files))]

\* ------------------------------------------------------------- seconds_fmt
\* Text is a sequence of one-character strings.  An elapsed time is a whole
\* number of milliseconds.
Digits == <<"0", "1", "2", "3", "4", "5", "6", "7", "8", "9">>

RECURSIVE Dec(_)
\* the decimal digits of a natural number, without leading zeros.
Dec(n) == IF n < 10 THEN <<Digits[n + 1]>>
          ELSE Dec(n \div 10) \o <<Digits[(n % 10) + 1]>>

\* f"{x:.2f}": x rounded to hundredths; a value exactly between two
\* hundredths goes the way its binary representation falls (tieUp).
Fmt2f(ms, tieUp) ==
    LET r  == ms % 10
        cs == (ms \div 10) + (IF r > 5 \/ (r = 5 /\ tieUp) THEN 1 ELSE 0)
    IN  Dec(cs \div 100) \o <<".", Digits[((cs \div 10) % 10) + 1], Digits[(cs % 10) + 1]>>

\* seconds_fmt, wrong: the seconds part is not reduced by the minutes.
SecondsFmt_KeepTotal(ms, tieUp) ==
    IF ms >= 60000
    THEN Dec(ms \div 60000) \o <<"m">> \o Fmt2f(ms, tieUp) \o <<"s">>
    ELSE Fmt2f(ms, tieUp) \o <<"s">>

\* seconds_fmt
SecondsFmt(ms, tieUp) ==
    IF ms >= 60000
    THEN LET m == ms \div 60000
             s == ms - (m * 60000)
         IN  Dec(m) \o <<"m">> \o Fmt2f(s, tieUp) \o <<"s">>
    ELSE Fmt2f(ms, tieUp) \o <<"s">>

\* label_of
LabelOf(status) ==
    CASE status = "ok"   -> "PASS"
      [] status = "fail" -> "FAIL"
      [] status = "err"  -> "ERROR"
      [] status = "skip" -> "SKIP"
      [] OTHER           -> status

\* --------------------------------------------------------------- rendering
\* _build_row_html: need_details, wrong: every skip row is expandable.
NeedDetails_AnySkip(status, hasMessage, hasDetail) ==
    status \in {"fail", "err", "skip"}

\* _build_row_html: need_details, from the status and the truth values of
\* c["message"] and c["detail"].
NeedDetails(status, hasMessage, hasDetail) ==
    \/ status \in {"fail", "err"}
    \/ (status = "skip" /\ (hasMessage \/ hasDetail))

\* s.strip() for the strings of the model: " " is the one made of white
\* space only.
StrStrip(s) == IF s = " " THEN "" ELSE s

\* _build_row_html: the row element of one case.  details is <<>> when the
\* row has no case-details block.
BuildRowHtml(c) ==
    [has_details    |-> NeedDetails(c.status, c.message # "", c.detail # ""),
     aria_expanded  |-> FALSE,
     data_suite     |-> c.suite,
     data_classname |-> c.classname,
     data_name      |-> c.name,
     status         |-> LabelOf(c.status),
     name           |-> c.name,
     classname      |-> c.classname,
     suite          |-> c.suite,
     time           |-> SecondsFmt(c.time, TRUE),
     details        |-> IF NeedDetails(c.status, c.message # "", c.detail # "")
                        THEN <<[label   |-> LabelOf(c.status),
                                message |-> StrOr(c.message, "(no message)"),
                                pre     |-> StrStrip(c.detail)]>>
                        ELSE <<>>]

\* classname = case["classname"] or "Default"
ClassKey(c) == StrOr(c.classname, "Default")

\* the keys of structure, and of structure[suite]
StructSuites(cases) == {cases[i].suite : i \in 1..Len(cases)}

StructClasses(cases, suite) ==
    {ClassKey(cases[i]) : i \in {j \in 1..Len(cases) : cases[j].suite = suite}}

\* structure[suite][classname]: the cases of the group, in input order.
StructCases(cases, suite, classname) ==
    SelectSeq(cases, LAMBDA c : c.suite = suite /\ ClassKey(c) = classname)

\* suite_cases: the cases of all classes of the suite.
SuiteCases(cases, suite) == SelectSeq(cases, LAMBDA c : c.suite = suite)

\* suite_totals / class_totals, wrong: skipped cases are counted as passed.
SubTotals_SkipPassed(cs) ==
    [tests    |-> Len(cs),
     passed   |-> CountStatus(cs, "ok") + CountStatus(cs, "skip"),
     failures |-> CountStatus(cs, "fail"),
     errors   |-> CountStatus(cs, "err"),
     skipped  |-> CountStatus(cs, "skip"),
     time     |-> SumOf(cs, "time")]

\* suite_totals / class_totals
SubTotals(cs) ==
    [tests    |-> Len(cs),
     passed   |-> CountStatus(cs, "ok"),
     failures |-> CountStatus(cs, "fail"),
     errors   |-> CountStatus(cs, "err"),
     skipped  |-> CountStatus(cs, "skip"),
     time     |-> SumOf(cs, "time")]

\* _build_main_content, wrong: the rows of a class are left in input order.
ClassSection_InputOrder(cases, suite, classname) ==
    LET class_cases == StructCases(cases, suite, classname)
    IN  [suite     |-> suite,
         classname |-> classname,
         totals    |-> SubTotals(class_cases),
         rows      |-> [i \in 1..Len(class_cases) |-> BuildRowHtml(class_cases[i])]]

\* _build_main_content: one class-section of a suite
ClassSection(cases, suite, classname) ==
    LET class_cases == StructCases(cases, suite, classname)
        sorted      == SortedByName(class_cases)
    IN  [suite     |-> suite,
         classname |-> classname,
         totals    |-> SubTotals(class_cases),
         rows      |-> [i \in 1..Len(sorted) |-> BuildRowHtml(sorted[i])]]

\* _build_main_content: one suite-section
SuiteSection(cases, suite) ==
    LET classes == SortedKeys(StructClasses(cases, suite))
    IN  [suite   |-> suite,
         totals  |-> SubTotals(SuiteCases(cases, suite)),
         classes |-> [i \in 1..Len(classes) |-> ClassSection(cases, suite, classes[i])]]

RECURSIVE FirstSeen(_, _)
\* the suites of the cases in the order in which they first appear.
FirstSeen(cases, seen) ==
    IF cases = <<>> THEN <<>>
    ELSE IF Head(cases).suite \in seen THEN FirstSeen(Tail(cases), seen)
    ELSE <<Head(cases).suite>> \o FirstSeen(Tail(cases), seen \cup {Head(cases).suite})

\* _build_main_content, wrong: the suites are not sorted (dict order).
BuildMainContent_InputOrder(data) ==
    LET suites == FirstSeen(data.cases, {})
    IN  [i \in 1..Len(suites) |-> SuiteSection(data.cases, suites[i])]

\* _build_main_content
BuildMainContent(data) ==
    LET suites == SortedKeys(StructSuites(data.cases))
    IN  [i \in 1..Len(suites) |-> SuiteSection(data.cases, suites[i])]

\* _build_sidebar: the case-items of one class-item, sorted(names)
SidebarCases(cases, suite, classname) ==
    LET sorted == SortedByName(StructCases(cases, suite, classname))
    IN  [i \in 1..Len(sorted) |->
            [suite |-> suite, classname |-> classname, name |-> sorted[i].name]]

\* _build_sidebar: one suite-item with its class-items
SidebarSuite(cases, suite) ==
    LET classes == SortedKeys(StructClasses(cases, suite))
    IN  [suite   |-> suite,
         classes |-> [i \in 1..Len(classes) |->
                        [suite     |-> suite,
                         classname |-> classes[i],
                         cases     |-> SidebarCases(cases, suite, classes[i])]]]

\* _build_sidebar
BuildSidebar(data) ==
    LET suites == SortedKeys(StructSuites(data.cases))
    IN  [i \in 1..Len(suites) |-> SidebarSuite(data.cases, suites[i])]

\* render_html: the totals pills of the header
HeaderTotals(t) ==
    [suites   |-> t.suites,
     tests    |-> t.tests,
     passed   |-> t.passed,
     failures |-> t.failures,
     errors   |-> t.errors,
     skipped  |-> t.skipped,
     time     |-> SecondsFmt(t.time, TRUE)]

\* render_html
RenderHtml(data, title) ==
    [title   |-> title,
     header  |-> HeaderTotals(data.totals),
     sidebar |-> BuildSidebar(data),
     main    |-> BuildMainContent(data)]

\* ------------------------------------------------------------------ inputs
\* os.path.basename(p) of the i-th path.
BaseNames == <<"f1.xml", "f2.xml", "f3.xml", "f4.xml">>

\* An optional count attribute.
AttrVals == {<<>>} \cup {<<n>> : n \in 0..MaxCount}

NoResult == <<>>

OneResult(kind) == <<[kind |-> kind, message |-> "", text |-> ""]>>

\* <testcase> elements that differ in their grouping key.
NameCases ==
    [classname : {"", "A"}, name : {"a", "b"}, time : {<<>>}, result : {NoResult}]

\* <testcase> elements that differ in their class and outcome.
StatusCases ==
    [classname : {"", "A"}, name : {"a"}, time : {<<>>},
     result : {NoResult, OneResult("Failure"), OneResult("Error"), OneResult("Skipped")}]

\* <testcase> elements of one class that pass or fail.
PassFailCases ==
    [classname : {"A"}, name : {"a"}, time : {<<>>},
     result : {NoResult, OneResult("Failure")}]

\* A <testsuite> without any count or time attribute.
BareSuite(name, cases) ==
    [name |-> name, tests |-> <<>>, failures |-> <<>>, errors |-> <<>>,
     skipped |-> <<>>, disabled |-> <<>>, time |-> <<>>, cases |-> cases]

\* What the i-th path holds: "bad" is a file JUnitXml.fromfile rejects, any
\* other kind is a <testsuites> document of one suite, the kind being the
\* suite's name attribute.
FileKinds == {"bad", "", "S1", "S2"}

MkFile(i, kind, cases) ==
    IF kind = "bad"
    THEN [base |-> BaseNames[i], ok |-> FALSE, suites |-> <<>>]
    ELSE [base |-> BaseNames[i], ok |-> TRUE, suites |-> <<BareSuite(kind, cases)>>]

RECURSIVE SumTo(_, _)
SumTo(f, n) == IF n = 0 THEN 0 ELSE f[n] + SumTo(f, n - 1)

\* ----------------------------------------------------------------- the run
\* parse_files: the dict it returns.
Data == [suites |-> suites_data, cases |-> case_rows, totals |-> totals[1]]

Start ==
    /\ pc = "parse"
    /\ idx = 0
    /\ suites_data = <<>>
    /\ case_rows = <<>>
    /\ totals = <<>>
    /\ html_str = <<>>
    /\ out_file = <<>>
    /\ stdout = <<>>
    /\ arg = <<>>
    /\ ret = <<>>
    /\ dom = <<>>

\* A run over one to MaxFiles paths whose suites carry no attributes and
\* hold at most MaxCases cases between them.
Init ==
    /\ \E n \in 1..MaxFiles :
       \E kinds \in [1..n -> FileKinds] :
       \E sz \in [1..n -> 0..MaxCases] :
          /\ SumTo(sz, n) <= MaxCases
          /\ \A i \in 1..n : kinds[i] = "bad" => sz[i] = 0
          /\ \E all \in [1..SumTo(sz, n) -> NameCases] :
                paths = [i \in 1..n |->
                            MkFile(i, kinds[i],
                                   SubSeq(all, SumTo(sz, i - 1) + 1, SumTo(sz, i)))]
    /\ Start

\* A run over one path that holds one suite: either any combination of
\* attributes over cases that pass or fail, or no attribute over cases of
\* any class and outcome.
InitSuite ==
    /\ \/ paths = <<MkFile(1, "bad", <<>>)>>
       \/ \E n \in 0..MaxCases :
          \E cases \in [1..n -> PassFailCases] :
          \E t \in AttrVals, f \in AttrVals, e \in AttrVals, s \in AttrVals,
             d \in AttrVals, tm \in AttrVals :
             paths = <<[base |-> BaseNames[1], ok |-> TRUE,
                        suites |-> <<[name |-> "S1", tests |-> t, failures |-> f,
                                      errors |-> e, skipped |-> s, disabled |-> d,
                                      time |-> tm, cases |-> cases]>>]>>
       \/ \E n \in 0..MaxCases :
          \E cases \in [1..n -> StatusCases] :
             paths = <<MkFile(1, "S1", cases)>>
    /\ Start

\* parse_files, wrong: suites_data is keyed by suite name, so a later suite
\* replaces an earlier one of the same name.
ParseFile_Overwrite ==
    /\ pc = "parse"
    /\ idx < Len(paths)
    /\ paths[idx + 1].ok
    /\ LET new == FileSummaries(paths[idx + 1])
       IN  suites_data' =
              SelectSeq(suites_data,
                        LAMBDA s : \A i \in 1..Len(new) : new[i].name # s.name) \o new
    /\ case_rows' = case_rows \o FileCaseRows(paths[idx + 1])
    /\ idx' = idx + 1
    /\ UNCHANGED <<paths, pc, totals, html_str, out_file, stdout, arg, ret, dom>>

\* parse_files: one turn of `for p in paths` on a file that parses.
ParseFile ==
    /\ pc = "parse"
    /\ idx < Len(paths)
    /\ paths[idx + 1].ok
    /\ suites_data' = suites_data \o FileSummaries(paths[idx + 1])
    /\ case_rows' = case_rows \o FileCaseRows(paths[idx + 1])
    /\ idx' = idx + 1
    /\ UNCHANGED <<paths, pc, totals, html_str, out_file, stdout, arg, ret, dom>>

\* parse_files, wrong: a file that does not parse is skipped.
ParseFail_Skip ==
    /\ pc = "parse"
    /\ idx < Len(paths)
    /\ ~paths[idx + 1].ok
    /\ idx' = idx + 1
    /\ UNCHANGED <<paths, pc, suites_data, case_rows, totals, html_str, out_file, stdout, arg, ret, dom>>

\* parse_files: JUnitXml.fromfile raises; nothing catches it up to main.
ParseFail ==
    /\ pc = "parse"
    /\ idx < Len(paths)
    /\ ~paths[idx + 1].ok
    /\ pc' = "aborted"
    /\ UNCHANGED <<paths, idx, suites_data, case_rows, totals, html_str, out_file, stdout, arg, ret, dom>>

\* parse_files: the totals, after the last path.
ComputeTotals ==
    /\ pc = "parse"
    /\ idx = Len(paths)
    /\ totals' = <<Totals(suites_data, case_rows)>>
    /\ pc' = "render"
    /\ UNCHANGED <<paths, idx, suites_data, case_rows, html_str, out_file, stdout, arg, ret, dom>>

\* main: html_str = render_html(data, title=args.title)
Render ==
    /\ pc = "render"
    /\ html_str' = <<RenderHtml(Data, "JUnit Report")>>
    /\ pc' = "write"
    /\ UNCHANGED <<paths, idx, suites_data, case_rows, totals, out_file, stdout, arg, ret, dom>>

\* main: open(args.output, "w") and f.write(html_str)
WriteOutput ==
    /\ pc = "write"
    /\ out_file' = html_str
    /\ pc' = "confirm"
    /\ UNCHANGED <<paths, idx, suites_data, case_rows, totals, html_str, stdout, arg, ret, dom>>

\* main: open(args.output, "w") raises OSError.
WriteFail ==
    /\ pc = "write"
    /\ pc' = "aborted"
    /\ UNCHANGED <<paths, idx, suites_data, case_rows, totals, html_str, out_file, stdout, arg, ret, dom>>

\* main: print(f"[V] Wrote {args.output}")
PrintConfirm ==
    /\ pc = "confirm"
    /\ stdout' = Append(stdout, [kind |-> "confirm", counts |-> <<>>])
    /\ pc' = "summary"
    /\ UNCHANGED <<paths, idx, suites_data, case_rows, totals, html_str, out_file, arg, ret, dom>>

\* main: the summary line, with passed computed again from the totals.
SummaryLine(t) ==
    [kind   |-> "summary",
     counts |-> <<[suites   |-> t.suites,
                   tests    |-> t.tests,
                   passed   |-> t.tests - t.failures - t.errors - t.skipped,
                   failures |-> t.failures,
                   errors   |-> t.errors,
                   skipped  |-> t.skipped]>>]

PrintSummary ==
    /\ pc = "summary"
    /\ stdout' = Append(stdout, SummaryLine(totals[1]))
    /\ pc' = "done"
    /\ UNCHANGED <<paths, idx, suites_data, case_rows, totals, html_str, out_file, arg, ret, dom>>

Next ==
    \/ ParseFile
    \/ ParseFail
    \/ ComputeTotals
    \/ Render
    \/ WriteOutput
    \/ WriteFail
    \/ PrintConfirm
    \/ PrintSummary

Spec == Init /\ [][Next]_vars

SpecSuite == InitSuite /\ [][Next]_vars

\* ------------------------------------------------- one case, on its own
\* The state of a specification that runs no main(): only pc, arg and ret
\* change.
Idle ==
    /\ paths = <<>>
    /\ idx = 0
    /\ suites_data = <<>>
    /\ case_rows = <<>>
    /\ totals = <<>>
    /\ html_str = <<>>
    /\ out_file = <<>>
    /\ stdout = <<>>

\* the result entries a <testcase> may hold
ResultEntries == [kind : {"Failure", "Error", "Skipped"}, message : {"", "m"},
                  text : {"", " ", "t"}]

InitCase ==
    /\ Idle
    /\ pc = "case"
    /\ \E n \in 0..MaxResults :
       \E result \in [1..n -> ResultEntries] :
       \E tm \in {<<>>, <<1500>>} :
          arg = [classname |-> "A", name |-> "a", time |-> tm, result |-> result]
    /\ ret = <<>>
    /\ dom = <<>>

\* parse_files: the row of one <testcase>
CaseParse ==
    /\ pc = "case"
    /\ ret' = <<CaseRow(arg, "S1")>>
    /\ pc' = "row"
    /\ UNCHANGED <<runvars, arg, dom>>

\* _build_main_content: main_html += _build_row_html(case)
RowBuild ==
    /\ pc = "row"
    /\ ret' = <<ret[1], BuildRowHtml(ret[1])>>
    /\ pc' = "built"
    /\ UNCHANGED <<runvars, arg, dom>>

NextCase == CaseParse \/ RowBuild

SpecCase == InitCase /\ [][NextCase]_vars

\* ------------------------------------------------ seconds_fmt, on its own
InitFmt ==
    /\ Idle
    /\ pc = "fmt"
    /\ arg \in 0..MaxMs
    /\ ret = <<>>
    /\ dom = <<>>

\* a call of seconds_fmt
Format ==
    /\ pc = "fmt"
    /\ \E tieUp \in BOOLEAN : ret' = <<SecondsFmt(arg, tieUp)>>
    /\ pc' = "formatted"
    /\ UNCHANGED <<runvars, arg, dom>>

NextFmt == Format

SpecFmt == InitFmt /\ [][NextFmt]_vars

\* ------------------------------------------- the text that is embedded
\* Here a text is a sequence of one-character strings, as in seconds_fmt.
RECURSIVE Replace(_, _, _)
\* str.replace(ch, rep) for a single character ch
Replace(t, ch, rep) ==
    IF t = <<>> THEN <<>>
    ELSE (IF Head(t) = ch THEN rep ELSE <<Head(t)>>) \o Replace(Tail(t), ch, rep)

\* html.escape, wrong: quote=False leaves both quotes alone.
EscapeHtml_NoQuote(x) ==
    Replace(Replace(Replace(x, "&", <<"&", "a", "m", "p", ";">>),
                    "<", <<"&", "l", "t", ";">>),
            ">", <<"&", "g", "t", ";">>)

\* _escape_html: html.escape(x, quote=True) replaces & first, then < and >,
\* then the double and the single quote.
EscapeHtml(x) ==
    Replace(Replace(Replace(Replace(Replace(x,
        "&", <<"&", "a", "m", "p", ";">>),
        "<", <<"&", "l", "t", ";">>),
        ">", <<"&", "g", "t", ";">>),
        "\"", <<"&", "q", "u", "o", "t", ";">>),
        "'", <<"&", "#", "x", "2", "7", ";">>)

RECURSIVE LStrip(_)
LStrip(t) == IF t # <<>> /\ Head(t) = " " THEN LStrip(Tail(t)) ELSE t

RECURSIVE RStrip(_)
RStrip(t) == IF t # <<>> /\ t[Len(t)] = " " THEN RStrip(SubSeq(t, 1, Len(t) - 1)) ELSE t

\* str.strip()
Strip(t) == LStrip(RStrip(t))

NoMessageText == <<"(", "n", "o", " ", "m", "e", "s", "s", "a", "g", "e", ")">>

DefaultText == <<"D", "e", "f", "a", "u", "l", "t">>

\* One place of the document where a text is embedded: where it is, whether
\* inside an attribute value or an element, the text, and what is written.
Slot(at, ctx, raw) == [at |-> at, ctx |-> ctx, raw |-> raw, out |-> EscapeHtml(raw)]

\* _build_row_html: the texts it embeds for case c
RowSlots(c) ==
    <<Slot("row.data-suite", "attr", c.suite),
      Slot("row.data-classname", "attr", c.classname),
      Slot("row.data-name", "attr", c.name),
      Slot("row.name.title", "attr", c.name),
      Slot("row.name", "text", c.name),
      Slot("row.classname.title", "attr", c.classname),
      Slot("row.classname", "text", c.classname),
      Slot("row.suite.title", "attr", c.suite),
      Slot("row.suite", "text", c.suite)>>
    \o (IF NeedDetails(c.status, c.message # <<>>, c.detail # <<>>)
        THEN <<Slot("row.detail-msg", "text",
                    IF c.message # <<>> THEN c.message ELSE NoMessageText),
               Slot("row.pre", "text", Strip(c.detail))>>
        ELSE <<>>)

\* _build_main_content: the texts it embeds for a report of the one case c
MainSlots(c) ==
    LET classname == IF c.classname # <<>> THEN c.classname ELSE DefaultText
    IN  <<Slot("suite-section.data-suite", "attr", c.suite),
          Slot("suite-header.data-suite", "attr", c.suite),
          Slot("suite-header.item-text", "text", c.suite),
          Slot("class-section.data-suite", "attr", c.suite),
          Slot("class-section.data-classname", "attr", classname),
          Slot("class-header.data-suite", "attr", c.suite),
          Slot("class-header.data-classname", "attr", classname),
          Slot("class-header.item-text", "text", classname)>>
        \o RowSlots(c)

\* _build_sidebar: the texts it embeds for a report of the one case c
SidebarSlots(c, title) ==
    LET classname == IF c.classname # <<>> THEN c.classname ELSE DefaultText
    IN  <<Slot("sidebar-search.placeholder", "attr", title),
          Slot("suite-item.data-suite", "attr", c.suite),
          Slot("suite-label.data-suite", "attr", c.suite),
          Slot("suite-label.item-text", "text", c.suite),
          Slot("class-item.data-suite", "attr", c.suite),
          Slot("class-item.data-classname", "attr", classname),
          Slot("class-label.data-suite", "attr", c.suite),
          Slot("class-label.data-classname", "attr", classname),
          Slot("class-label.item-text", "text", classname),
          Slot("case-item.data-suite", "attr", c.suite),
          Slot("case-item.data-classname", "attr", classname),
          Slot("case-item.data-name", "attr", c.name),
          Slot("case-label.data-suite", "attr", c.suite),
          Slot("case-label.data-classname", "attr", classname),
          Slot("case-label.data-name", "attr", c.name),
          Slot("case-label.item-text", "text", c.name)>>

\* render_html: the texts the page template embeds itself
PageSlots(title) ==
    <<Slot("head.title", "text", title),
      Slot("h1", "text", title)>>

\* the characters of a user-supplied text
Chars == {"a", ";", " ", "<", ">", "&", "\"", "'"}

Texts == UNION {[1..n -> Chars] : n \in 0..MaxLen}

PlainCase ==
    [suite |-> <<"a">>, classname |-> <<"a">>, name |-> <<"a">>,
     message |-> <<"a">>, detail |-> <<"a">>]

\* A report of one case and a title, one of whose texts is any text; a case
\* that passed has no message and no detail.
InitEscape ==
    /\ Idle
    /\ pc = "escape"
    /\ \E t \in Texts :
       \E f \in {"suite", "classname", "name", "message", "detail", "title"} :
       \E st \in {"ok", "fail", "err", "skip"} :
          /\ st = "ok" => f \notin {"message", "detail"}
          /\ arg = [case   |-> [x \in DOMAIN PlainCase \cup {"status"} |->
                                IF x = "status" THEN st
                                ELSE IF x \in {"message", "detail"} /\ st = "ok"
                                     THEN <<>>
                                ELSE IF x = f THEN t
                                ELSE PlainCase[x]],
                    title  |-> IF f = "title" THEN t ELSE <<"a">>]
    /\ ret = <<>>
    /\ dom = <<>>

\* render_html: main_content_html = _build_main_content(data)
EmitMain ==
    /\ pc = "escape"
    /\ ret' = MainSlots(arg.case)
    /\ pc' = "sidebar"
    /\ UNCHANGED <<runvars, arg, dom>>

\* render_html: sidebar_html = _build_sidebar(data, title)
EmitSidebar ==
    /\ pc = "sidebar"
    /\ ret' = ret \o SidebarSlots(arg.case, arg.title)
    /\ pc' = "page"
    /\ UNCHANGED <<runvars, arg, dom>>

\* render_html: the page around them
EmitPage ==
    /\ pc = "page"
    /\ ret' = ret \o PageSlots(arg.title)
    /\ pc' = "escaped"
    /\ UNCHANGED <<runvars, arg, dom>>

NextEscape == EmitMain \/ EmitSidebar \/ EmitPage

SpecEscape == InitEscape /\ [][NextEscape]_vars

\* ------------------------------------------------ the report in a browser
\* The script of the page works on text: the characters of the strings of
\* the model.
TextOf(s) ==
    CASE s = ""             -> <<>>
      [] s = " "            -> <<" ">>
      [] s = "A"            -> <<"A">>
      [] s = "B"            -> <<"B">>
      [] s = "a"            -> <<"a">>
      [] s = "b"            -> <<"b">>
      [] s = "m"            -> <<"m">>
      [] s = "t"            -> <<"t">>
      [] s = "S1"           -> <<"S", "1">>
      [] s = "S2"           -> <<"S", "2">>
      [] s = "Default"      -> DefaultText
      [] s = "(no message)" -> NoMessageText
      [] s = "PASS"         -> <<"P", "A", "S", "S">>
      [] s = "FAIL"         -> <<"F", "A", "I", "L">>
      [] s = "ERROR"        -> <<"E", "R", "R", "O", "R">>
      [] s = "SKIP"         -> <<"S", "K", "I", "P">>

UpperCase == <<"A", "B", "D", "E", "F", "I", "K", "L", "O", "P", "R", "S">>

LowerCase == <<"a", "b", "d", "e", "f", "i", "k", "l", "o", "p", "r", "s">>

\* String.prototype.toLowerCase
ToLowerCase(t) ==
    [i \in 1..Len(t) |->
        IF \E k \in 1..Len(UpperCase) : UpperCase[k] = t[i]
        THEN LowerCase[CHOOSE k \in 1..Len(UpperCase) : UpperCase[k] = t[i]]
        ELSE t[i]]

\* String.prototype.includes
Includes(t, q) == \E i \in 0..(Len(t) - Len(q)) : SubSeq(t, i + 1, i + Len(q)) = q

RECURSIVE ReplaceFirst(_, _)
\* String.prototype.replace(ch, ''): the first occurrence only
ReplaceFirst(t, ch) ==
    IF t = <<>> THEN <<>>
    ELSE IF Head(t) = ch THEN Tail(t)
    ELSE <<Head(t)>> \o ReplaceFirst(Tail(t), ch)

RECURSIVE DigitRun(_)
\* the longest prefix of t made of decimal digits
DigitRun(t) ==
    IF t # <<>> /\ (\E d \in 1..10 : Digits[d] = Head(t))
    THEN <<Head(t)>> \o DigitRun(Tail(t))
    ELSE <<>>

RECURSIVE DigitsValue(_)
DigitsValue(ds) ==
    IF ds = <<>> THEN 0
    ELSE (10 * DigitsValue(SubSeq(ds, 1, Len(ds) - 1)))
         + ((CHOOSE d \in 1..10 : Digits[d] = ds[Len(ds)]) - 1)

\* parseFloat: the number read from the longest numeric prefix, <<>> for NaN.
\* The value is in hundredths; the texts it is given carry two decimals.
ParseFloat(t) ==
    LET ip   == DigitRun(t)
        rest == SubSeq(t, Len(ip) + 1, Len(t))
        fp   == IF rest # <<>> /\ Head(rest) = "." THEN DigitRun(Tail(rest)) ELSE <<>>
        f2   == SubSeq(fp \o <<"0", "0">>, 1, 2)
    IN  IF ip = <<>> /\ fp = <<>> THEN <<>>
        ELSE <<(100 * DigitsValue(ip)) + DigitsValue(f2)>>

\* labelToKey
LabelToKey(s) ==
    CASE s = "PASS"  -> "ok"
      [] s = "FAIL"  -> "fail"
      [] s = "ERROR" -> "err"
      [] s = "SKIP"  -> "skip"
      [] OTHER       -> ""

\* the five cells of a row element and, when it has one, its detail block
RowCells(el) ==
    <<TextOf(el.status), TextOf(el.name), TextOf(el.classname), TextOf(el.suite), el.time>>
    \o (IF el.details # <<>>
        THEN <<TextOf(el.details[1].label), TextOf(el.details[1].message),
               TextOf(el.details[1].pre)>>
        ELSE <<>>)

RECURSIVE JoinLines(_)
JoinLines(ts) == IF ts = <<>> THEN <<"\n">> ELSE <<"\n">> \o Head(ts) \o JoinLines(Tail(ts))

\* el.textContent of a row: the texts of its elements, each on a line of its
\* own in the template.
TextContent(el) == JoinLines(RowCells(el))

\* rows: the entry of one .row element; container is its .class-content.
JsRow(el, container) ==
    LET p == ParseFloat(ReplaceFirst(Strip(el.time), "s"))
    IN  [el        |-> el,
         container |-> container,
         statusKey |-> LabelToKey(el.status),
         status    |-> el.status,
         name      |-> ToLowerCase(Strip(TextOf(el.name))),
         classname |-> ToLowerCase(Strip(TextOf(el.classname))),
         suite     |-> ToLowerCase(Strip(TextOf(el.suite))),
         time      |-> IF p = <<>> THEN 0 ELSE p[1]]

\* document.querySelectorAll('.class-section'), in document order
ClassSectionsOf(main) ==
    Flatten([i \in 1..Len(main) |->
                [j \in 1..Len(main[i].classes) |->
                    [section   |-> i,
                     suite     |-> main[i].suite,
                     classname |-> main[i].classes[j].classname,
                     rows      |-> main[i].classes[j].rows]]])

\* the rows array: every .row of #content, in document order
RowsOf(main) ==
    LET cs == ClassSectionsOf(main)
    IN  Flatten([k \in 1..Len(cs) |->
                    [r \in 1..Len(cs[k].rows) |-> JsRow(cs[k].rows[r], k)]])

\* document.querySelectorAll('.sidebar-item'), in document order; an
\* attribute the item does not carry is "".
SidebarItemsOf(sidebar) ==
    Flatten([i \in 1..Len(sidebar) |->
       <<[type |-> "suite", suite |-> sidebar[i].suite, classname |-> "", name |-> ""]>>
       \o Flatten([j \in 1..Len(sidebar[i].classes) |->
            <<[type |-> "class", suite |-> sidebar[i].classes[j].suite,
               classname |-> sidebar[i].classes[j].classname, name |-> ""]>>
            \o [k \in 1..Len(sidebar[i].classes[j].cases) |->
                  [type      |-> "case",
                   suite     |-> sidebar[i].classes[j].cases[k].suite,
                   classname |-> sidebar[i].classes[j].cases[k].classname,
                   name      |-> sidebar[i].classes[j].cases[k].name]]])])

\* the .item-text of the item's own label
ItemLabel(item) ==
    IF item.type = "suite" THEN item.suite
    ELSE IF item.type = "class" THEN item.classname
    ELSE item.name

\* item.parentElement.closest('.sidebar-item'): 0 when there is none
ParentItem(items, i) ==
    LET up == IF items[i].type = "case" THEN "class"
              ELSE IF items[i].type = "class" THEN "suite" ELSE ""
        before == {j \in 1..(i - 1) : items[j].type = up}
    IN  IF before = {} THEN 0 ELSE CHOOSE j \in before : \A h \in before : h <= j

\* The document after the script ran its initialisation: what it read once
\* (rows, sections, items), the lower-case textContent of every row and of
\* every sidebar label, which no handler changes, and what the handlers
\* change.
LoadPage(page) ==
    LET rows     == RowsOf(page.main)
        sections == ClassSectionsOf(page.main)
        items    == SidebarItemsOf(page.sidebar)
    IN  [rows            |-> rows,
         sections        |-> sections,
         items           |-> items,
         row_text        |-> [i \in 1..Len(rows) |-> ToLowerCase(TextContent(rows[i].el))],
         item_text       |-> [i \in 1..Len(items) |->
                                ToLowerCase(JoinLines(<<TextOf(ItemLabel(items[i]))>>))],
         children        |-> [k \in 1..Len(sections) |->
                                SelectSeq([i \in 1..Len(rows) |-> i],
                                          LAMBDA i : rows[i].container = k)],
         row_display     |-> [i \in 1..Len(rows) |-> TRUE],
         row_expanded    |-> [i \in 1..Len(rows) |-> FALSE],
         row_aria        |-> [i \in 1..Len(rows) |-> rows[i].el.aria_expanded],
         row_highlighted |-> [i \in 1..Len(rows) |-> FALSE],
         class_display   |-> [k \in 1..Len(sections) |-> TRUE],
         class_collapsed |-> [k \in 1..Len(sections) |-> FALSE],
         suite_display   |-> [s \in 1..Len(page.main) |-> TRUE],
         suite_collapsed |-> [s \in 1..Len(page.main) |-> FALSE],
         item_display    |-> [i \in 1..Len(items) |-> TRUE],
         item_collapsed  |-> [i \in 1..Len(items) |-> FALSE],
         search          |-> <<>>,
         status_filter   |-> "",
         sort            |-> "status",
         sidebar_search  |-> <<>>]

\* apply: inSearch, text being (r.el.textContent || '').toLowerCase()
InSearch(r, text, q) ==
    \/ q = <<>>
    \/ Includes(r.name, q)
    \/ Includes(r.classname, q)
    \/ Includes(r.suite, q)
    \/ Includes(text, q)

\* apply: inStatus
InStatus(r, statusFilter) == statusFilter = "" \/ r.statusKey = statusFilter

\* apply, wrong: the status filter is not looked at.
ApplyFilter_SearchOnly(d) ==
    LET q == ToLowerCase(Strip(d.search))
    IN  [d EXCEPT !.row_display =
            [i \in 1..Len(d.rows) |-> InSearch(d.rows[i], d.row_text[i], q)]]

\* apply: the display of every row
ApplyFilter(d) ==
    LET q == ToLowerCase(Strip(d.search))
    IN  [d EXCEPT !.row_display =
            [i \in 1..Len(d.rows) |->
                /\ InSearch(d.rows[i], d.row_text[i], q)
                /\ InStatus(d.rows[i], d.status_filter)]]

\* the characters of the names in the order localeCompare gives them
Collation == <<" ", "1", "2", "a", "b", "d", "e", "f", "i", "k", "l", "m", "o", "p",
               "r", "s", "t", "u">>

RECURSIVE LocaleCompare(_, _)
\* String.prototype.localeCompare: negative, zero or positive
LocaleCompare(x, y) ==
    IF x = <<>> THEN (IF y = <<>> THEN 0 ELSE -1)
    ELSE IF y = <<>> THEN 1
    ELSE IF Head(x) = Head(y) THEN LocaleCompare(Tail(x), Tail(y))
    ELSE (CHOOSE i \in 1..Len(Collation) : Collation[i] = Head(x))
         - (CHOOSE i \in 1..Len(Collation) : Collation[i] = Head(y))

\* apply: statusOrder
StatusOrder(k) ==
    CASE k = "err" -> 0 [] k = "fail" -> 1 [] k = "skip" -> 2 [] k = "ok" -> 3

\* apply: the comparison function given to sort
Compare(a, b, sortBy) ==
    IF sortBy = "time" THEN b.time - a.time
    ELSE IF sortBy = "name" THEN LocaleCompare(a.name, b.name)
    ELSE IF StatusOrder(a.statusKey) # StatusOrder(b.statusKey)
         THEN StatusOrder(a.statusKey) - StatusOrder(b.statusKey)
         ELSE b.time - a.time

RECURSIVE InsertRow(_, _, _, _)
InsertRow(sorted, x, rows, sortBy) ==
    IF sorted = <<>> THEN <<x>>
    ELSE IF Compare(rows[Head(sorted)], rows[x], sortBy) > 0
         THEN <<x>> \o sorted
         ELSE <<Head(sorted)>> \o InsertRow(Tail(sorted), x, rows, sortBy)

RECURSIVE SortRows(_, _, _)
\* Array.prototype.sort, which is stable
SortRows(ids, rows, sortBy) ==
    IF ids = <<>> THEN <<>>
    ELSE InsertRow(SortRows(SubSeq(ids, 1, Len(ids) - 1), rows, sortBy),
                   ids[Len(ids)], rows, sortBy)

\* apply: visibleRows of a container
VisibleRows(d, k) ==
    SelectSeq([i \in 1..Len(d.rows) |-> i],
              LAMBDA i : d.rows[i].container = k /\ d.row_display[i])

\* apply, wrong: the container is emptied before the sorted rows go in.
ApplySort_Replace(d) ==
    [d EXCEPT !.children =
        [k \in 1..Len(d.sections) |-> SortRows(VisibleRows(d, k), d.rows, d.sort)]]

\* apply: the visible rows of each container are sorted and appended to it,
\* which moves them behind the rows that stay where they are.
ApplySort(d) ==
    [d EXCEPT !.children =
        [k \in 1..Len(d.sections) |->
            LET sorted == SortRows(VisibleRows(d, k), d.rows, d.sort)
            IN  SelectSeq(d.children[k],
                          LAMBDA i : \A j \in 1..Len(sorted) : sorted[j] # i)
                \o sorted]]

\* apply, wrong: a class section without visible rows is left as it is.
ApplyClasses_NeverHide(d) ==
    [d EXCEPT !.class_display = [k \in 1..Len(d.sections) |-> TRUE],
              !.class_collapsed = [k \in 1..Len(d.sections) |-> FALSE]]

\* apply, wrong: a class section keeps the collapsed state it has.
ApplyClasses_KeepCollapsed(d) ==
    LET hasVisibleRows(k) ==
            Len(SelectSeq(d.children[k], LAMBDA i : ~d.row_display[i])) < Len(d.children[k])
    IN  [d EXCEPT !.class_display = [k \in 1..Len(d.sections) |-> hasVisibleRows(k)]]

\* apply: every class section is shown and opened when fewer of its rows
\* are hidden than it has, and hidden otherwise.
ApplyClasses(d) ==
    LET hasVisibleRows(k) ==
            Len(SelectSeq(d.children[k], LAMBDA i : ~d.row_display[i])) < Len(d.children[k])
    IN  [d EXCEPT !.class_display = [k \in 1..Len(d.sections) |-> hasVisibleRows(k)],
                  !.class_collapsed =
                      [k \in 1..Len(d.sections) |->
                          IF hasVisibleRows(k) THEN FALSE ELSE d.class_collapsed[k]]]

\* the class sections inside suite section s
ClassesIn(d, s) == {k \in 1..Len(d.sections) : d.sections[k].section = s}

\* apply: the same for every suite section and its class sections
ApplySuites(d) ==
    LET hasVisibleClassSections(s) ==
            Cardinality({k \in ClassesIn(d, s) : ~d.class_display[k]})
               < Cardinality(ClassesIn(d, s))
    IN  [d EXCEPT !.suite_display =
                      [s \in DOMAIN d.suite_display |-> hasVisibleClassSections(s)],
                  !.suite_collapsed =
                      [s \in DOMAIN d.suite_collapsed |->
                          IF hasVisibleClassSections(s) THEN FALSE
                          ELSE d.suite_collapsed[s]]]

\* apply
Apply(d) == ApplySuites(ApplyClasses(ApplySort(ApplyFilter(d))))

\* the data-suite of suite section s
SectionSuite(d, s) == d.sections[CHOOSE k \in 1..Len(d.sections) : d.sections[k].section = s].suite

\* the items above item j in the sidebar tree
Ancestors(items, j) ==
    LET p == ParentItem(items, j)
    IN  IF p = 0 THEN {}
        ELSE {p} \cup (IF ParentItem(items, p) = 0 THEN {} ELSE {ParentItem(items, p)})

\* bindSidebarSearch: the input handler.  The keys of a class and of a case
\* (suite + ':' + classname + ':' + name in the script) are tuples.
SidebarSearchHandler(d, value) ==
    LET query == Strip(ToLowerCase(value))
        reset == [d EXCEPT !.sidebar_search  = value,
                           !.suite_display   = [s \in DOMAIN d.suite_display |-> TRUE],
                           !.suite_collapsed = [s \in DOMAIN d.suite_collapsed |-> FALSE],
                           !.class_display   = [k \in DOMAIN d.class_display |-> TRUE],
                           !.class_collapsed = [k \in DOMAIN d.class_collapsed |-> FALSE],
                           !.item_display    = [i \in DOMAIN d.item_display |-> TRUE],
                           !.item_collapsed  = [i \in DOMAIN d.item_collapsed |-> FALSE],
                           !.row_display     = [i \in DOMAIN d.row_display |-> TRUE]]
        items == d.items
        rows  == d.rows
        itemMatch == {i \in 1..Len(items) : Includes(d.item_text[i], query)}
        rowMatch  == {i \in 1..Len(rows) :
                        /\ Includes(d.row_text[i], query)
                        /\ rows[i].el.data_suite # ""
                        /\ rows[i].el.data_classname # ""}
        matchingSuites ==
            {items[i].suite : i \in {j \in itemMatch : items[j].suite # ""}}
            \cup {rows[i].el.data_suite : i \in rowMatch}
        matchingClasses ==
            {<<items[i].suite, items[i].classname>> :
                i \in {j \in itemMatch : items[j].suite # "" /\ items[j].classname # ""}}
            \cup {<<rows[i].el.data_suite, rows[i].el.data_classname>> : i \in rowMatch}
        matchingCases ==
            {<<items[i].suite, items[i].classname, items[i].name>> :
                i \in {j \in itemMatch : /\ items[j].suite # ""
                                         /\ items[j].classname # ""
                                         /\ items[j].name # ""}}
            \cup {<<rows[i].el.data_suite, rows[i].el.data_classname, rows[i].el.data_name>> :
                    i \in {j \in rowMatch : rows[j].el.data_name # ""}}
        rowShow(i) ==
            LET el == rows[i].el
            IN  IF el.data_suite # "" /\ el.data_classname # "" /\ el.data_name # ""
                THEN <<el.data_suite, el.data_classname, el.data_name>> \in matchingCases
                ELSE IF el.data_suite # "" /\ el.data_classname # ""
                THEN <<el.data_suite, el.data_classname>> \in matchingClasses
                ELSE IF el.data_suite # "" THEN el.data_suite \in matchingSuites
                ELSE FALSE
        itemShow(i) ==
            IF items[i].type = "suite" THEN items[i].suite \in matchingSuites
            ELSE IF items[i].type = "class"
            THEN <<items[i].suite, items[i].classname>> \in matchingClasses
            ELSE <<items[i].suite, items[i].classname, items[i].name>> \in matchingCases
        inClass(k) == {d.children[k][n] : n \in 1..Len(d.children[k])}
    IN  IF query = <<>> THEN reset
        ELSE [reset EXCEPT
                !.row_display   = [i \in DOMAIN d.row_display |-> rowShow(i)],
                !.class_display =
                    [k \in DOMAIN d.class_display |->
                        \/ <<d.sections[k].suite, d.sections[k].classname>> \in matchingClasses
                        \/ \E i \in inClass(k) : rowShow(i)],
                !.suite_display =
                    [s \in DOMAIN d.suite_display |->
                        \/ SectionSuite(d, s) \in matchingSuites
                        \/ \E k \in ClassesIn(d, s) : \E i \in inClass(k) : rowShow(i)],
                !.item_display  =
                    [i \in DOMAIN d.item_display |->
                        \/ itemShow(i)
                        \/ \E j \in 1..Len(items) : i \in Ancestors(items, j) /\ itemShow(j)]]

\* bindRowToggle, wrong: the class is toggled and the attribute forgotten.
Toggle_ClassOnly(d, i) ==
    [d EXCEPT !.row_expanded[i] = ~d.row_expanded[i]]

\* bindRowToggle: toggle
Toggle(d, i) ==
    [d EXCEPT !.row_expanded[i] = ~d.row_expanded[i],
              !.row_aria[i]     = ~d.row_expanded[i]]

\* bindRowToggle: the click listener of a .row.has-details; a row without
\* the class has no listener.
RowClickHandler(d, i, inDetails) ==
    IF ~d.rows[i].el.has_details THEN d
    ELSE IF inDetails THEN d
    ELSE Toggle(d, i)

\* bindRowToggle: the keydown listener
RowKeydownHandler(d, i, key) ==
    IF ~d.rows[i].el.has_details THEN d
    ELSE IF key = "Enter" \/ key = " " THEN Toggle(d, i)
    ELSE d

\* bindSidebarNavigation: which rows the click on an item highlights
Highlights(item, el) ==
    IF item.name # "" /\ item.classname # "" /\ item.suite # ""
    THEN el.data_suite = item.suite /\ el.data_classname = item.classname
         /\ el.data_name = item.name
    ELSE IF item.classname # "" /\ item.suite # ""
    THEN el.data_suite = item.suite /\ el.data_classname = item.classname
    ELSE IF item.suite # "" THEN el.data_suite = item.suite
    ELSE FALSE

\* bindSidebarNavigation: the click listener of the innermost item under the
\* pointer (it stops the propagation to the items around it).
SidebarClickHandler(d, i, onLabel) ==
    IF onLabel /\ d.items[i].type \in {"suite", "class"}
    THEN [d EXCEPT !.item_collapsed[i] = ~d.item_collapsed[i]]
    ELSE [d EXCEPT !.row_highlighted =
                      [r \in DOMAIN d.row_highlighted |-> Highlights(d.items[i], d.rows[r].el)]]

\* bindMainContentCollapse: the click listener of a .suite-header
SuiteHeaderHandler(d, s) ==
    [d EXCEPT !.suite_collapsed[s] = ~d.suite_collapsed[s]]

\* bindMainContentCollapse: the click listener of a .class-header
ClassHeaderHandler(d, k) ==
    [d EXCEPT !.class_collapsed[k] = ~d.class_collapsed[k]]

\* ----------------------------------------------------------- the UI events
\* The document of the browser, once loaded.
D == dom[1]

\* What the user types into the search box of the main panel and into the
\* one of the sidebar.
Queries == {<<>>, <<"B">>, <<"1">>}

SidebarQueries == {<<>>, <<"B">>}

\* the values of #status-filter and of #sort
StatusFilters == {"", "ok", "fail", "err", "skip"}

SortKeys == {"status", "time", "name"}

Keys == {"Enter", " ", "a"}

\* What of the page is on the screen and can be clicked: an element whose
\* display is none, or that lies in a collapsed section, is not.
ClassShown(d, k) ==
    /\ d.class_display[k]
    /\ d.suite_display[d.sections[k].section]
    /\ ~d.suite_collapsed[d.sections[k].section]

RowShown(d, i) ==
    /\ d.row_display[i]
    /\ ClassShown(d, d.rows[i].container)
    /\ ~d.class_collapsed[d.rows[i].container]

ItemShown(d, i) ==
    /\ d.item_display[i]
    /\ \A a \in Ancestors(d.items, i) : d.item_display[a] /\ ~d.item_collapsed[a]

\* <testcase> elements of one class that differ in outcome and elapsed time.
TimedCases ==
    [classname : {"A"}, name : {"a"}, time : {<<30000>>, <<65000>>},
     result : {NoResult, OneResult("Failure"), OneResult("Error"), OneResult("Skipped")}]

\* <testcase> elements that differ in class and outcome.
GroupedCases ==
    [classname : {"", "B"}, name : {"a"}, time : {<<>>},
     result : {NoResult, OneResult("Failure")}]

\* the report of the parsed data being opened in the browser
Open(data) ==
    /\ Idle
    /\ pc = "browse"
    /\ arg = data
    /\ ret = <<>>
    /\ dom = <<LoadPage(RenderHtml(data, "JUnit Report"))>>

\* The cases of GroupedCases, and the suite and case names of a file that
\* holds one case, each in a fixed order.
GroupedSeq ==
    <<[classname |-> "", name |-> "a", time |-> <<>>, result |-> NoResult],
      [classname |-> "", name |-> "a", time |-> <<>>, result |-> OneResult("Failure")],
      [classname |-> "B", name |-> "a", time |-> <<>>, result |-> NoResult],
      [classname |-> "B", name |-> "a", time |-> <<>>, result |-> OneResult("Failure")]>>

FileSeq ==
    <<[kind |-> "S1", name |-> "a"], [kind |-> "S1", name |-> "b"],
      [kind |-> "S2", name |-> "a"], [kind |-> "S2", name |-> "b"]>>

\* the ways to pick n of m things, as lists in ascending order
Picks(n, m) == {f \in [1..n -> 1..m] : \A i \in 1..(n - 1) : f[i] <= f[i + 1]}

\* A report of one to MaxRows cases: of one suite with any classes and
\* outcomes, or of one file for each case with any suite and case names.
\* The order of the cases in the input is left aside: the rendering groups
\* and sorts them.
InitUI ==
    \E n \in 1..MaxRows :
       \/ \E f \in Picks(n, Len(GroupedSeq)) :
             Open(ParseFiles(<<MkFile(1, "S1", [i \in 1..n |-> GroupedSeq[f[i]]])>>))
       \/ \E f \in Picks(n, Len(FileSeq)) :
             Open(ParseFiles([i \in 1..n |->
                                MkFile(i, FileSeq[f[i]].kind,
                                       <<[classname |-> "A", name |-> FileSeq[f[i]].name,
                                          time |-> <<>>, result |-> NoResult]>>)]))

\* A report of one to MaxRows cases of one suite and class, with any
\* outcomes and elapsed times.
InitSort ==
    \E n \in 1..MaxRows :
    \E cases \in [1..n -> TimedCases] : Open(ParseFiles(<<MkFile(1, "S1", cases)>>))

\* A report of one to MaxRows cases of one suite, with any classes and
\* outcomes.
InitNav ==
    \E n \in 1..MaxRows :
    \E cases \in [1..n -> GroupedCases] : Open(ParseFiles(<<MkFile(1, "S1", cases)>>))

\* the input event of #search
MainSearchInput ==
    /\ pc = "browse"
    /\ \E v \in Queries :
          /\ v # D.search
          /\ dom' = <<Apply([D EXCEPT !.search = v])>>
    /\ UNCHANGED <<runvars, pc, arg, ret>>

\* the change event of #status-filter
FilterChange ==
    /\ pc = "browse"
    /\ \E v \in StatusFilters :
          /\ v # D.status_filter
          /\ dom' = <<Apply([D EXCEPT !.status_filter = v])>>
    /\ UNCHANGED <<runvars, pc, arg, ret>>

\* the change event of #sort
SortChange ==
    /\ pc = "browse"
    /\ \E v \in SortKeys :
          /\ v # D.sort
          /\ dom' = <<Apply([D EXCEPT !.sort = v])>>
    /\ UNCHANGED <<runvars, pc, arg, ret>>

\* the input event of the sidebar's search box: the listener registered by
\* bindSidebarSearch runs, then apply, registered after it.
SidebarSearchInput ==
    /\ pc = "browse"
    /\ \E v \in SidebarQueries :
          /\ v # D.sidebar_search
          /\ dom' = <<Apply(SidebarSearchHandler(D, v))>>
    /\ UNCHANGED <<runvars, pc, arg, ret>>

\* a click on the header of a suite section
SuiteHeaderClick ==
    /\ pc = "browse"
    /\ \E s \in DOMAIN D.suite_display :
          /\ D.suite_display[s]
          /\ dom' = <<SuiteHeaderHandler(D, s)>>
    /\ UNCHANGED <<runvars, pc, arg, ret>>

\* a click on the header of a class section
ClassHeaderClick ==
    /\ pc = "browse"
    /\ \E k \in DOMAIN D.class_display :
          /\ ClassShown(D, k)
          /\ dom' = <<ClassHeaderHandler(D, k)>>
    /\ UNCHANGED <<runvars, pc, arg, ret>>

\* a click on a row, inside its detail block (which shows while the row is
\* expanded) or outside of it
RowClick ==
    /\ pc = "browse"
    /\ \E i \in DOMAIN D.row_display :
       \E inDetails \in BOOLEAN :
          /\ RowShown(D, i)
          /\ inDetails => (D.rows[i].el.details # <<>> /\ D.row_expanded[i])
          /\ dom' = <<RowClickHandler(D, i, inDetails)>>
    /\ UNCHANGED <<runvars, pc, arg, ret>>

\* a key pressed while a row has the focus
RowKeydown ==
    /\ pc = "browse"
    /\ \E i \in DOMAIN D.row_display :
       \E key \in Keys :
          /\ D.row_display[i]
          /\ D.class_display[D.rows[i].container]
          /\ D.suite_display[D.sections[D.rows[i].container].section]
          /\ dom' = <<RowKeydownHandler(D, i, key)>>
    /\ UNCHANGED <<runvars, pc, arg, ret>>

\* a click on an item of the sidebar tree, on its label or beside it
SidebarClick ==
    /\ pc = "browse"
    /\ \E i \in DOMAIN D.item_display :
       \E onLabel \in BOOLEAN :
          /\ ItemShown(D, i)
          /\ D.items[i].type = "case" => onLabel
          /\ ~onLabel => ~D.item_collapsed[i]
          /\ dom' = <<SidebarClickHandler(D, i, onLabel)>>
    /\ UNCHANGED <<runvars, pc, arg, ret>>

NextUI ==
    \/ MainSearchInput
    \/ FilterChange
    \/ SortChange
    \/ SidebarSearchInput
    \/ SuiteHeaderClick
    \/ ClassHeaderClick

SpecUI == InitUI /\ [][NextUI]_vars

NextSort ==
    \/ SortChange
    \/ FilterChange
    \/ MainSearchInput

SpecSort == InitSort /\ [][NextSort]_vars

NextNav ==
    \/ RowClick
    \/ RowKeydown
    \/ SidebarClick
    \/ FilterChange

SpecNav == InitNav /\ [][NextNav]_vars

\* ------------------------------------------------------------------ claims
\* helpers of the claims
RangeOf(seq) == {seq[i] : i \in 1..Len(seq)}

\* a sequence as a multiset
BagOf(seq) == [x \in RangeOf(seq) |-> Cardinality({i \in 1..Len(seq) : seq[i] = x})]

\* the <testsuite> elements of a list of files, each with its file's base name
InputSuites(files) ==
    Flatten([i \in 1..Len(files) |->
                [j \in 1..Len(files[i].suites) |->
                    [suite |-> files[i].suites[j], base |-> files[i].base]]])

\* the rows of a suite section, over its class sections
SectionRows(section) ==
    Flatten([i \in 1..Len(section.classes) |-> section.classes[i].rows])

PassedIsRest(t) == t.passed = t.tests - t.failures - t.errors - t.skipped

\* C1: passed = tests - failures - errors - skipped holds in the totals that
\* parse_files returns and in the subtotals of every suite section and class
\* section of the main panel, where a subtotal's tests is its number of
\* rows and its passed is its number of PASS rows.
C1_PassedIsRest ==
    /\ totals # <<>> => PassedIsRest(totals[1])
    /\ html_str # <<>> =>
         \A i \in 1..Len(html_str[1].main) :
            LET sec == html_str[1].main[i]
            IN  /\ PassedIsRest(sec.totals)
                /\ sec.totals.tests = Len(SectionRows(sec))
                /\ sec.totals.passed =
                     Len(SelectSeq(SectionRows(sec), LAMBDA r : r.status = "PASS"))
                /\ \A j \in 1..Len(sec.classes) :
                      LET cls == sec.classes[j]
                      IN  /\ PassedIsRest(cls.totals)
                          /\ cls.totals.tests = Len(cls.rows)
                          /\ cls.totals.passed =
                               Len(SelectSeq(cls.rows, LAMBDA r : r.status = "PASS"))

\* C1's case: a rendered suite with two class sections, one of which holds
\* a case that did not pass.
C1_Witness ==
    /\ html_str # <<>>
    /\ \E i \in 1..Len(html_str[1].main) :
          /\ Len(html_str[1].main[i].classes) = 2
          /\ html_str[1].main[i].totals.passed < html_str[1].main[i].totals.tests
          /\ html_str[1].main[i].totals.passed > 0

\* the number of cases of a <testsuite> with the given status
DerivedCount(suite, st) ==
    CountStatus([i \in 1..Len(suite.cases) |-> CaseRow(suite.cases[i], "")], st)

\* C3 as claimed: a suite that omits a count attribute gets, in its summary,
\* the count derived from its cases (tests: the number of cases; failures,
\* errors, skipped: the number of cases of that status), a suite that omits
\* time gets 0, and the file is parsed.
C3_MissingCountsDerived ==
    \A k \in 1..Len(suites_data) :
       LET x  == InputSuites(paths)[k].suite
           sd == suites_data[k]
       IN  /\ x.tests = <<>> => sd.tests = Len(x.cases)
           /\ x.failures = <<>> => sd.failures = DerivedCount(x, "fail")
           /\ x.errors = <<>> => sd.errors = DerivedCount(x, "err")
           /\ x.skipped = <<>> => sd.skipped = DerivedCount(x, "skip")
           /\ x.time = <<>> => sd.time = 0

\* C3 as amended: a suite that omits tests gets the number of its cases; one
\* that omits failures or errors gets 0 for it; one that omits skipped gets
\* the disabled value of the parsed suite, 0 without one; one that omits
\* time gets 0; and a file that parses never aborts the run.
C3_MissingCountsDefault ==
    /\ \A k \in 1..Len(suites_data) :
          LET x  == InputSuites(paths)[k].suite
              sd == suites_data[k]
          IN  /\ x.tests = <<>> => sd.tests = Len(x.cases)
              /\ x.failures = <<>> => sd.failures = 0
              /\ x.errors = <<>> => sd.errors = 0
              /\ x.skipped = <<>> =>
                    sd.skipped = (IF x.disabled = <<>> THEN 0 ELSE x.disabled[1])
              /\ x.time = <<>> => sd.time = 0
    /\ (\A i \in 1..Len(paths) : paths[i].ok) =>
          /\ pc = "parse" => Len(suites_data) = Len(InputSuites(SubSeq(paths, 1, idx)))
          /\ pc \notin {"parse", "aborted"} => Len(suites_data) = Len(InputSuites(paths))
          /\ pc = "aborted" => html_str # <<>>

\* C3's case: a parsed suite without tests, failures and time attributes
\* that holds a failed case.
C3_Witness ==
    /\ Len(suites_data) = 1
    /\ LET x == InputSuites(paths)[1].suite
       IN  /\ x.tests = <<>> /\ x.failures = <<>> /\ x.time = <<>>
           /\ x.errors # <<>>
           /\ DerivedCount(x, "fail") > 0
    /\ pc = "done"

\* C4 as claimed: each count of the report header equals the sum of that
\* count over the suite sections, and each suite section's count equals the
\* sum over its class sections.
C4_HeaderMatchesSections ==
    html_str # <<>> =>
       LET doc == html_str[1]
           secTotals == [i \in 1..Len(doc.main) |-> doc.main[i].totals]
       IN  /\ \A f \in {"tests", "passed", "failures", "errors", "skipped"} :
                 doc.header[f] = SumOf(secTotals, f)
           /\ \A i \in 1..Len(doc.main) :
                 \A f \in {"tests", "passed", "failures", "errors", "skipped"} :
                    doc.main[i].totals[f] =
                       SumOf([j \in 1..Len(doc.main[i].classes) |->
                                 doc.main[i].classes[j].totals], f)

\* C5: in a run one of whose inputs does not parse, no input at or behind
\* the first such file is ever parsed, the totals are never computed,
\* render_html never returns, the output file is never opened and nothing
\* is printed.
C5_AbortOnParseFailure ==
    \A i \in 1..Len(paths) :
       ~paths[i].ok =>
          /\ idx < i
          /\ Len(suites_data) <= Len(InputSuites(SubSeq(paths, 1, i - 1)))
          /\ Len(case_rows) <= Len(ParseFiles(SubSeq(paths, 1, i - 1)).cases)
          /\ pc \in {"parse", "aborted"}
          /\ totals = <<>>
          /\ html_str = <<>>
          /\ out_file = <<>>
          /\ stdout = <<>>

\* C5's case: the run has aborted at a file behind one that parsed.
C5_Witness ==
    /\ pc = "aborted"
    /\ idx >= 1
    /\ idx < Len(paths)
    /\ ~paths[idx + 1].ok
    /\ case_rows # <<>>

\* the orders of the files: paths after each permutation of its positions
Reorderings(files) ==
    {[i \in 1..Len(files) |-> files[f[i]]] :
        f \in {g \in [1..Len(files) -> 1..Len(files)] :
                 \A a, b \in 1..Len(files) : a # b => g[a] # g[b]}}

\* every file parses and no two suites of the input have the same name
DistinctSuiteNames(files) ==
    /\ \A i \in 1..Len(files) : files[i].ok
    /\ LET ss == InputSuites(files)
       IN  \A a, b \in 1..Len(ss) :
              a # b => SuiteName(ss[a].suite, ss[a].base) # SuiteName(ss[b].suite, ss[b].base)

\* C6 as claimed: when the suite names are distinct, parse_files returns
\* the same suites, cases and totals for every order of the input files.
C6_SameOutputAnyOrder ==
    (totals # <<>> /\ DistinctSuiteNames(paths)) =>
       \A files \in Reorderings(paths) : ParseFiles(files) = Data

\* C6 as amended: when the suite names are distinct, every order of the
\* input files gives the same totals, the same suite summaries and case rows
\* up to their order in the lists, and the same rendered document (stated
\* of the document render_html has just returned).
C6_SameReportAnyOrder ==
    (pc = "write" /\ DistinctSuiteNames(paths)) =>
       \A files \in Reorderings(paths) :
          LET d == ParseFiles(files)
          IN  /\ d.totals = totals[1]
              /\ BagOf(d.suites) = BagOf(suites_data)
              /\ BagOf(d.cases) = BagOf(case_rows)
              /\ RenderHtml(d, html_str[1].title) = html_str[1]

\* C6's case: a report of two files whose suites have different names and
\* one case each, the second file's suite sorting before the first's.
C6_Witness ==
    /\ html_str # <<>>
    /\ Len(paths) = 2
    /\ DistinctSuiteNames(paths)
    /\ Len(suites_data) = 2
    /\ Rank(suites_data[2].name) < Rank(suites_data[1].name)
    /\ suites_data[1].tests = 1
    /\ suites_data[2].tests = 1

\* C7: every suite of every input file keeps a summary entry of its own, in
\* input order, with its own file and its own number of cases, and the
\* totals count them all; the main panel and the sidebar hold exactly one
\* heading for each suite name that has cases, and under it the cases of
\* all the suites of that name.
C7_SameNameSuitesKeptApart ==
    html_str # <<>> =>
       LET ss  == InputSuites(paths)
           doc == html_str[1]
       IN  /\ Len(suites_data) = Len(ss)
           /\ totals[1].suites = Len(ss)
           /\ doc.header.suites = Len(ss)
           /\ \A k \in 1..Len(ss) :
                 /\ suites_data[k].name = SuiteName(ss[k].suite, ss[k].base)
                 /\ suites_data[k].file = ss[k].base
                 /\ suites_data[k].tests = OrElse(ss[k].suite.tests, Len(ss[k].suite.cases))
           /\ \A name \in {suites_data[k].name : k \in 1..Len(suites_data)} :
                 LET mine == SelectSeq(case_rows, LAMBDA c : c.suite = name)
                     heads == {i \in 1..Len(doc.main) : doc.main[i].suite = name}
                     items == {i \in 1..Len(doc.sidebar) : doc.sidebar[i].suite = name}
                 IN  IF mine = <<>>
                     THEN heads = {} /\ items = {}
                     ELSE /\ Cardinality(heads) = 1
                          /\ Cardinality(items) = 1
                          /\ \A i \in heads :
                                LET rows == SectionRows(doc.main[i])
                                IN  BagOf([r \in 1..Len(rows) |->
                                             <<rows[r].classname, rows[r].name>>]) =
                                    BagOf([r \in 1..Len(mine) |->
                                             <<mine[r].classname, mine[r].name>>])
                          /\ \A i \in items :
                                LET cs == Flatten([j \in 1..Len(doc.sidebar[i].classes) |->
                                                      doc.sidebar[i].classes[j].cases])
                                IN  BagOf([r \in 1..Len(cs) |-> cs[r].name]) =
                                    BagOf([r \in 1..Len(mine) |-> mine[r].name])

\* C7's case: a report of two files that both declare suite S1, with one
\* case each, of different names.
C7_Witness ==
    /\ html_str # <<>>
    /\ Len(paths) = 2
    /\ Len(suites_data) = 2
    /\ suites_data[1].name = "S1"
    /\ suites_data[2].name = "S1"
    /\ Len(case_rows) = 2
    /\ case_rows[1].name # case_rows[2].name

\* the status of a result entry's kind
KindStatus(kind) ==
    CASE kind = "Failure" -> "fail"
      [] kind = "Error"   -> "err"
      [] kind = "Skipped" -> "skip"

\* the kinds of the result entries of the case in arg
ArgKinds == {arg.result[i].kind : i \in 1..Len(arg.result)}

\* C2 as claimed: the status of a case is fail when any of its result
\* entries is a failure, whatever their order; else error when any is an
\* error; else skip when any is a skipped; pass without entries.
C2_PrecedenceOverAllEntries ==
    pc \in {"row", "built"} =>
       ret[1].status = (IF "Failure" \in ArgKinds THEN "fail"
                        ELSE IF "Error" \in ArgKinds THEN "err"
                        ELSE IF "Skipped" \in ArgKinds THEN "skip"
                        ELSE "ok")

\* C2 as amended: the status of a case is that of its first result entry
\* (failure: fail, error: error, skipped: skip), and pass without entries;
\* for a case of at most one entry this is the precedence fail > error >
\* skip > pass.
C2_FirstEntryDecides ==
    pc \in {"row", "built"} =>
       /\ ret[1].status = (IF arg.result = <<>> THEN "ok"
                           ELSE KindStatus(arg.result[1].kind))
       /\ Len(arg.result) <= 1 =>
             ret[1].status = (IF "Failure" \in ArgKinds THEN "fail"
                              ELSE IF "Error" \in ArgKinds THEN "err"
                              ELSE IF "Skipped" \in ArgKinds THEN "skip"
                              ELSE "ok")

\* C2's case: a parsed case whose first entry is a skipped and whose second
\* is a failure.
C2_Witness ==
    /\ pc = "row"
    /\ Len(arg.result) = 2
    /\ arg.result[1].kind = "Skipped"
    /\ arg.result[2].kind = "Failure"
    /\ ret[1].status = "skip"

\* C9: a rendered row carries the has-details flag, and a case-details
\* block, exactly when its status is fail or error, or its status is skip
\* and its message or its detail is not empty; a pass row and a skip row
\* without message and detail carry neither.
C9_ExpandableRows ==
    pc = "built" =>
       LET c   == ret[1]
           row == ret[2]
       IN  /\ row.has_details <=>
                \/ c.status = "fail"
                \/ c.status = "err"
                \/ (c.status = "skip" /\ ~(c.message = "" /\ c.detail = ""))
           /\ (row.details # <<>>) <=> row.has_details
           /\ row.status = "PASS" => (~row.has_details /\ row.details = <<>>)
           /\ (row.status = "SKIP" /\ c.message = "" /\ c.detail = "") =>
                 (~row.has_details /\ row.details = <<>>)

\* C9's case: a skip row without message and detail, built without the
\* flag.
C9_Witness ==
    /\ pc = "built"
    /\ ret[1].status = "skip"
    /\ ret[1].message = ""
    /\ ret[1].detail = ""
    /\ ~ret[2].has_details

\* --- reading a formatted time back
IsDigit(ch) == \E d \in 1..10 : Digits[d] = ch

DigitVal(ch) == (CHOOSE d \in 1..10 : Digits[d] = ch) - 1

RECURSIVE NumOf(_)
\* the number a sequence of digits denotes
NumOf(ds) == IF ds = <<>> THEN 0
             ELSE (10 * NumOf(SubSeq(ds, 1, Len(ds) - 1))) + DigitVal(ds[Len(ds)])

\* a natural number written without leading zeros
IsPlainNumber(ds) ==
    /\ ds # <<>>
    /\ \A i \in 1..Len(ds) : IsDigit(ds[i])
    /\ Len(ds) > 1 => ds[1] # "0"

\* seconds with two decimals: digits, a point, two digits
IsSeconds2(t) ==
    /\ Len(t) >= 4
    /\ t[Len(t) - 2] = "."
    /\ IsDigit(t[Len(t) - 1]) /\ IsDigit(t[Len(t)])
    /\ IsPlainNumber(SubSeq(t, 1, Len(t) - 3))

\* the hundredths of a second that seconds with two decimals denote
HundredthsOf(t) ==
    (100 * NumOf(SubSeq(t, 1, Len(t) - 3))) + NumOf(SubSeq(t, Len(t) - 1, Len(t)))

\* x hundredths is ms milliseconds rounded to hundredths
RoundsTo(ms, x) == (10 * x) - ms <= 5 /\ ms - (10 * x) <= 5

\* C10: seconds_fmt writes a time below 60 s as the seconds with two
\* decimals and 's', and a time of 60 s or more as the whole minutes without
\* padding, 'm', the remaining seconds with two decimals and 's'; what is
\* written adds up to the time, rounded to hundredths of a second; 45.2 s
\* gives 45.20s, 125.5 s gives 2m5.50s and 0 gives 0.00s.
C10_SecondsFmt ==
    pc = "formatted" =>
       LET t    == ret[1]
           body == SubSeq(t, 1, Len(t) - 1)
           ms   == {i \in 1..Len(body) : body[i] = "m"}
       IN  /\ t[Len(t)] = "s"
           /\ arg < 60000 =>
                 /\ ms = {}
                 /\ IsSeconds2(body)
                 /\ RoundsTo(arg, HundredthsOf(body))
           /\ arg >= 60000 =>
                 /\ Cardinality(ms) = 1
                 /\ \A k \in ms :
                       LET mins == SubSeq(body, 1, k - 1)
                           secs == SubSeq(body, k + 1, Len(body))
                       IN  /\ IsPlainNumber(mins)
                           /\ NumOf(mins) = arg \div 60000
                           /\ IsSeconds2(secs)
                           /\ RoundsTo(arg, (6000 * NumOf(mins)) + HundredthsOf(secs))
           /\ arg = 45200 => t = <<"4", "5", ".", "2", "0", "s">>
           /\ arg = 125500 => t = <<"2", "m", "5", ".", "5", "0", "s">>
           /\ arg = 0 => t = <<"0", ".", "0", "0", "s">>

\* C10's case: 125.5 s formatted in minutes.
C10_Witness ==
    /\ pc = "formatted"
    /\ arg = 125500
    /\ ret[1] = <<"2", "m", "5", ".", "5", "0", "s">>

\* --- reading an escaped text back
Entities ==
    {<<"&", <<"&", "a", "m", "p", ";">>>>,
     <<"<", <<"&", "l", "t", ";">>>>,
     <<">", <<"&", "g", "t", ";">>>>,
     <<"\"", <<"&", "q", "u", "o", "t", ";">>>>,
     <<"'", <<"&", "#", "x", "2", "7", ";">>>>}

StartsWith(t, p) == Len(t) >= Len(p) /\ SubSeq(t, 1, Len(p)) = p

RECURSIVE Unescape(_)
\* what a browser reads from written text: entities replaced, the rest
\* kept; <<"?">> in front of a markup character that is written bare.
Unescape(t) ==
    IF t = <<>> THEN <<>>
    ELSE IF \E e \in Entities : StartsWith(t, e[2])
    THEN LET e == CHOOSE e \in Entities : StartsWith(t, e[2])
         IN  <<e[1]>> \o Unescape(SubSeq(t, Len(e[2]) + 1, Len(t)))
    ELSE IF Head(t) \in {"&", "<", ">", "\"", "'"}
    THEN <<"?">> \o Unescape(Tail(t))
    ELSE <<Head(t)>> \o Unescape(Tail(t))

\* no markup character is written bare: each & starts an entity
WrittenSafe(t) ==
    \A i \in 1..Len(t) :
       /\ t[i] \notin {"<", ">", "\"", "'"}
       /\ t[i] = "&" => \E e \in Entities : StartsWith(SubSeq(t, i, Len(t)), e[2])

\* the texts of the report in arg
ArgTexts ==
    {arg.case.suite, arg.case.name, arg.title}
    \cup (IF arg.case.classname # <<>> THEN {arg.case.classname} ELSE {})

\* C8: whatever render_html embeds from a suite name, class name, case
\* name, message, detail body or title, inside an attribute value or an
\* element, is written with every < > & " ' of it as an entity, and reads
\* back as the text embedded; every name and the title are embedded, and
\* so are the message and the detail of a row with details.
C8_UserTextEscaped ==
    /\ pc \in {"sidebar", "page", "escaped"} =>
          \A i \in 1..Len(ret) :
             /\ WrittenSafe(ret[i].out)
             /\ Unescape(ret[i].out) = ret[i].raw
    /\ pc = "escaped" =>
          /\ \A t \in ArgTexts : \E i \in 1..Len(ret) : ret[i].raw = t
          /\ arg.case.status \in {"fail", "err"} =>
                /\ \E i \in 1..Len(ret) :
                      /\ ret[i].at = "row.detail-msg"
                      /\ arg.case.message # <<>> => ret[i].raw = arg.case.message
                /\ \E i \in 1..Len(ret) :
                      /\ ret[i].at = "row.pre"
                      /\ ret[i].raw = Strip(arg.case.detail)

\* C8's case: a finished document whose case name, written inside an
\* attribute value, is a double quote and an ampersand.
C8_Witness ==
    /\ pc = "escaped"
    /\ \E i \in 1..Len(ret) :
          /\ ret[i].at = "row.data-name"
          /\ ret[i].ctx = "attr"
          /\ ret[i].raw = <<"\"", "&">>
          /\ ret[i].out = <<"&", "q", "u", "o", "t", ";", "&", "a", "m", "p", ";">>

\* C11: in the rendered document the suite sections stand in ascending order
\* of suite name, the class sections of a suite in ascending order of class
\* name, the rows of a class in ascending order of case name (every parsed
\* case being one row), and the sidebar tree lists the same suites, classes
\* and cases in the same order.
C11_RenderOrder ==
    html_str # <<>> =>
       LET main == html_str[1].main
           side == html_str[1].sidebar
       IN  /\ \A i \in 1..(Len(main) - 1) : Rank(main[i].suite) < Rank(main[i + 1].suite)
           /\ SumOf([i \in 1..Len(main) |-> main[i].totals], "tests") = Len(case_rows)
           /\ Len(side) = Len(main)
           /\ \A i \in 1..Len(main) :
                 LET cs == main[i].classes
                     sc == side[i].classes
                 IN  /\ side[i].suite = main[i].suite
                     /\ Len(sc) = Len(cs)
                     /\ \A j \in 1..(Len(cs) - 1) :
                           Rank(cs[j].classname) < Rank(cs[j + 1].classname)
                     /\ \A j \in 1..Len(cs) :
                           /\ sc[j].classname = cs[j].classname
                           /\ \A k \in 1..(Len(cs[j].rows) - 1) :
                                 Rank(cs[j].rows[k].name) <= Rank(cs[j].rows[k + 1].name)
                           /\ [k \in 1..Len(sc[j].cases) |-> sc[j].cases[k].name]
                                = [k \in 1..Len(cs[j].rows) |-> cs[j].rows[k].name]

\* C11's case: a rendered report whose input lists, in one class, the case
\* named b before the case named a.
C11_Witness ==
    /\ html_str # <<>>
    /\ Len(case_rows) = 2
    /\ case_rows[1].suite = case_rows[2].suite
    /\ case_rows[1].classname = case_rows[2].classname
    /\ case_rows[1].name = "b"
    /\ case_rows[2].name = "a"

\* helpers of the claims about the page in the browser
\* a row is displayed when neither it nor a section around it has display none
DisplayedIn(d, i) ==
    /\ d.row_display[i]
    /\ d.class_display[d.rows[i].container]
    /\ d.suite_display[d.sections[d.rows[i].container].section]

Displayed(i) == DisplayedIn(D, i)

\* some text of the row (status label, case name, classname, suite name,
\* elapsed time, detail block) contains q, whatever the case of the letters
RowTextHas(el, q) == \E n \in 1..Len(RowCells(el)) : Includes(ToLowerCase(RowCells(el)[n]), q)

\* the row satisfies the selected status filter and the main query
Selected(el, statusFilter, search) ==
    /\ statusFilter = "" \/ LabelOf(statusFilter) = el.status
    /\ ToLowerCase(Strip(search)) = <<>> \/ RowTextHas(el, ToLowerCase(Strip(search)))

\* the ids of the rows of class section k, in the order of the document
ChildRows(k) == D.children[k]

C13_SectionsHiddenWhenEmpty ==
    /\ \A k \in 1..Len(D.sections) :
          D.class_display[k] <=> \E n \in 1..Len(ChildRows(k)) : D.row_display[ChildRows(k)[n]]
    /\ \A s \in DOMAIN D.suite_display :
          D.suite_display[s] <=> \E k \in ClassesIn(D, s) : D.class_display[k]
    /\ \A s \in DOMAIN D.suite_display :
          D.suite_display[s] => \E i \in 1..Len(D.rows) :
                                   /\ D.sections[D.rows[i].container].section = s
                                   /\ Displayed(i)

\* C13's case: the filter left one class section of a suite on display and
\* hid the other, and in another state hid a whole suite section.
C13_Witness ==
    /\ D.status_filter # ""
    /\ \E k, h \in 1..Len(D.sections) :
          /\ D.sections[k].section = D.sections[h].section
          /\ D.class_display[k]
          /\ ~D.class_display[h]

\* C17: after any sequence of sort, filter and search events every row is a
\* child of the class section it was rendered in, exactly once: the rows of
\* each class section, displayed or hidden, are the rows rendered into it,
\* and no row is in two sections or twice in one.
C17_RowsStayInTheirSection ==
    /\ \A k \in 1..Len(D.sections) :
          /\ Len(ChildRows(k)) = Len(D.sections[k].rows)
          /\ BagOf([n \in 1..Len(ChildRows(k)) |-> D.rows[ChildRows(k)[n]].el])
               = BagOf(D.sections[k].rows)
          /\ \A n \in 1..Len(ChildRows(k)) :
                /\ D.rows[ChildRows(k)[n]].el.data_suite = D.sections[k].suite
                /\ ClassKey([classname |-> D.rows[ChildRows(k)[n]].el.data_classname])
                     = D.sections[k].classname
    /\ \A i \in 1..Len(D.rows) :
          Cardinality({<<k, n>> \in (1..Len(D.sections)) \X (1..Len(D.rows)) :
                          n <= Len(ChildRows(k)) /\ ChildRows(k)[n] = i}) = 1

\* C17's case: a sort moved the second row of a class section in front of
\* the first, and the filter then hid one of the two.
C17_Witness ==
    /\ \E k \in 1..Len(D.sections) :
          /\ Len(ChildRows(k)) = 2
          /\ ChildRows(k)[1] > ChildRows(k)[2]
    /\ \E i \in 1..Len(D.rows) : ~D.row_display[i]

\* the steps in which the main search box, the status filter or the sort
\* selector changed, and those in which the sidebar's search box changed
MainControlChanged(d, e) ==
    d.search # e.search \/ d.status_filter # e.status_filter \/ d.sort # e.sort

SidebarSearchChanged(d, e) == d.sidebar_search # e.sidebar_search

\* C14 as claimed: once the input event of a non-empty query typed into the
\* sidebar's search box is handled, the rows of the main panel on display
\* are exactly those whose case name or other row text contains the query,
\* whatever the case of the letters.
C14_SidebarSearchSyncsMain ==
    [][(/\ SidebarSearchChanged(dom[1], dom'[1])
        /\ Strip(ToLowerCase(dom'[1].sidebar_search)) # <<>>)
       => \A i \in 1..Len(dom'[1].rows) :
             DisplayedIn(dom'[1], i)
                <=> RowTextHas(dom'[1].rows[i].el,
                               Strip(ToLowerCase(dom'[1].sidebar_search)))]_vars

\* C20 as claimed: a main search input, a status filter change or a sort
\* change leaves the collapsed state of every suite section and of every
\* class section as it was.
C20_CollapsedUntilHeaderClick ==
    [][MainControlChanged(dom[1], dom'[1])
       => /\ dom'[1].class_collapsed = dom[1].class_collapsed
          /\ dom'[1].suite_collapsed = dom[1].suite_collapsed]_vars

\* C20, amended: the collapsed state is per section.  A click on a header
\* toggles the collapsed state of that one section and changes nothing
\* else.  After a main search input, a status filter change or a sort
\* change a section is collapsed exactly when it was collapsed before and
\* the event leaves it hidden: every section that has a row on display is
\* opened.  After an input into the sidebar's search box no section is
\* collapsed.
C20_CollapsedUntilFiltered ==
    [][LET d == dom[1]
           e == dom'[1]
       IN  /\ MainControlChanged(d, e) =>
                /\ \A k \in DOMAIN d.class_collapsed :
                      e.class_collapsed[k] <=> (d.class_collapsed[k] /\ ~e.class_display[k])
                /\ \A s \in DOMAIN d.suite_collapsed :
                      e.suite_collapsed[s] <=> (d.suite_collapsed[s] /\ ~e.suite_display[s])
           /\ SidebarSearchChanged(d, e) =>
                /\ \A k \in DOMAIN d.class_collapsed : ~e.class_collapsed[k]
                /\ \A s \in DOMAIN d.suite_collapsed : ~e.suite_collapsed[s]
           /\ (~MainControlChanged(d, e) /\ ~SidebarSearchChanged(d, e)) =>
                /\ Cardinality({k \in DOMAIN d.class_collapsed :
                                   e.class_collapsed[k] # d.class_collapsed[k]})
                   + Cardinality({s \in DOMAIN d.suite_collapsed :
                                     e.suite_collapsed[s] # d.suite_collapsed[s]}) = 1
                /\ e.row_display = d.row_display
                /\ e.class_display = d.class_display
                /\ e.suite_display = d.suite_display
                /\ e.children = d.children]_vars

\* C20's case: a class section that was collapsed by a click on its header
\* is still collapsed after a filter change that hid it, next to a section
\* that is on display.
C20_Witness ==
    \E k, h \in 1..Len(D.sections) :
       /\ D.class_collapsed[k]
       /\ ~D.class_display[k]
       /\ D.class_display[h]
       /\ ~D.class_collapsed[h]

\* the elapsed time of the case a row was rendered from
ElapsedOf(el) ==
    arg.cases[CHOOSE j \in 1..Len(arg.cases) : BuildRowHtml(arg.cases[j]) = el].time

\* the rows of class section k that have no display none, in document order
DisplayedRows(k) == SelectSeq(ChildRows(k), LAMBDA i : D.row_display[i])

\* error < fail < skip < pass, by the label the row shows
StatusPriority(label) ==
    CASE label = "ERROR" -> 0 [] label = "FAIL" -> 1 [] label = "SKIP" -> 2 [] label = "PASS" -> 3

\* C15 as claimed: while the sort selector is set to elapsed time, the rows
\* on display in every class section stand in descending order of the
\* elapsed time of their cases, also for times of 60 seconds or more.
C15_SortedByElapsedTime ==
    D.sort = "time" =>
       \A k \in 1..Len(D.sections) :
       \A n \in 1..(Len(DisplayedRows(k)) - 1) :
          ElapsedOf(D.rows[DisplayedRows(k)[n]].el)
             >= ElapsedOf(D.rows[DisplayedRows(k)[n + 1]].el)

\* C16 as claimed: in every state in which the sort selector holds its
\* default value 'status', the state right after the load included, the
\* rows on display in every class section are ordered error < fail < skip
\* < pass, and by descending elapsed time among rows of one status.
C16_StatusOrderByDefault ==
    D.sort = "status" =>
       \A k \in 1..Len(D.sections) :
       \A n \in 1..(Len(DisplayedRows(k)) - 1) :
          LET a == D.rows[DisplayedRows(k)[n]].el
              b == D.rows[DisplayedRows(k)[n + 1]].el
          IN  \/ StatusPriority(a.status) < StatusPriority(b.status)
              \/ /\ StatusPriority(a.status) = StatusPriority(b.status)
                 /\ ElapsedOf(a) >= ElapsedOf(b)

\* C18: the aria-expanded attribute of every row equals its expanded state;
\* a row without the has-details flag is never expanded and no click or key
\* changes anything for it; for a row with the flag, a click outside its
\* detail block toggles the expanded state of that row alone, Enter and
\* Space on the focused row do exactly what that click does, another key
\* and a click inside the detail block do nothing.
C18_RowToggle ==
    \A i \in 1..Len(D.rows) :
       LET click == RowClickHandler(D, i, FALSE)
       IN  /\ D.row_aria[i] = D.row_expanded[i]
           /\ ~D.rows[i].el.has_details =>
                 /\ ~D.row_expanded[i]
                 /\ click = D
                 /\ \A key \in Keys : RowKeydownHandler(D, i, key) = D
           /\ D.rows[i].el.has_details =>
                 /\ click.row_expanded[i] = ~D.row_expanded[i]
                 /\ click.row_aria[i] = click.row_expanded[i]
                 /\ \A j \in 1..Len(D.rows) :
                       j # i => click.row_expanded[j] = D.row_expanded[j]
                 /\ RowKeydownHandler(D, i, "Enter") = click
                 /\ RowKeydownHandler(D, i, " ") = click
                 /\ RowKeydownHandler(D, i, "a") = D
                 /\ RowClickHandler(D, i, TRUE) = D

\* C18's case: a row with a detail block is expanded next to a row that
\* has none.
C18_Witness ==
    \E i, j \in 1..Len(D.rows) :
       /\ D.rows[i].el.has_details
       /\ D.row_expanded[i]
       /\ D.row_aria[i]
       /\ ~D.rows[j].el.has_details

\* C19 as claimed: the data-suite and data-classname of every row are those
\* of the class section around it, and every case item of the sidebar has a
\* row that a click on it highlights.
C19_RowKeysMatchStructure ==
    /\ \A k \in 1..Len(D.sections) :
       \A n \in 1..Len(ChildRows(k)) :
          /\ D.rows[ChildRows(k)[n]].el.data_suite = D.sections[k].suite
          /\ D.rows[ChildRows(k)[n]].el.data_classname = D.sections[k].classname
    /\ \A j \in 1..Len(D.items) :
          D.items[j].type = "case" =>
             \E i \in 1..Len(D.rows) :
                SidebarClickHandler(D, j, TRUE).row_highlighted[i]

\* C21 as claimed: the passed count of the totals, of the report header and
\* of the summary line is never negative and never exceeds the tests count.
C21_PassedWithinTests ==
    /\ totals # <<>> =>
          /\ totals[1].passed >= 0
          /\ totals[1].passed <= totals[1].tests
    /\ html_str # <<>> =>
          /\ html_str[1].header.passed >= 0
          /\ html_str[1].header.passed <= html_str[1].header.tests
    /\ \A i \in 1..Len(stdout) :
          stdout[i].kind = "summary" =>
             /\ stdout[i].counts[1].passed >= 0
             /\ stdout[i].counts[1].passed <= stdout[i].counts[1].tests

====
